---- MODULE Spec2Model ----
(***************************************************************************)
(* Decision logic of the SGTM pull-request bot (src/src/github/logic.py):  *)
(* pre-merge and post-merge approval, automerge label policy, automerge    *)
(* warning comments and the stale check rerunner.                          *)
(***************************************************************************)
EXTENDS Integers, Sequences, FiniteSets, TLC

VARIABLES
    pull_request,   \* the pull request as GitHub holds it (the snapshot a call reads)
    config,         \* the SGTM_FEATURE__* values of src.config
    now,            \* datetime.now(timezone.utc), in hours
    github,         \* calls received so far by github_client
    call,           \* the last call of an entry point: its input, effects and result
    webhooks        \* the webhook deliveries being handled: the snapshot each
                    \* handler fetched, its position, and the caller's lock

vars == <<pull_request, config, now, github, call, webhooks>>

----------------------------------------------------------------------------
(* Bounds *)

MaxReviews == 2
MaxTime == 3
MaxTexts == 2
MaxRuns == 1
MaxScannedRuns == 2

----------------------------------------------------------------------------
(* Values *)

\* Optional values: None is Python's None, Some(x) a present value.
None == <<>>
Some(x) == <<x>>

Users == {"alice", "bob"}
FollowupConfigs == {{}, {"bob"}}
Times == 1..MaxTime

APPROVED == "APPROVED"
CHANGES_REQUESTED == "CHANGES_REQUESTED"
COMMENTED == "COMMENTED"
ReviewStates == {APPROVED, CHANGES_REQUESTED, COMMENTED}

\* class AutomergeLabel
AFTER_TESTS_AND_APPROVAL == "merge after tests and approval"
AFTER_TESTS == "merge after tests"
AFTER_APPROVAL == "merge after approval"
IMMEDIATELY == "merge immediately"
AutomergeLabels == {AFTER_TESTS_AND_APPROVAL, AFTER_TESTS, AFTER_APPROVAL, IMMEDIATELY}

\* class MergeableState
MERGEABLE == "MERGEABLE"
CONFLICTING == "CONFLICTING"
UNKNOWN == "UNKNOWN"
MergeableStates == {MERGEABLE, CONFLICTING, UNKNOWN}

\* class ApprovedBeforeMergeStatus
NO == "NO"
NEEDS_FOLLOWUP == "NEEDS_FOLLOWUP"
StatusAPPROVED == "Status.APPROVED"
AssertionError == "AssertionError"

SeqUpTo(S, n) == UNION {[1..k -> S] : k \in 0..n}

----------------------------------------------------------------------------
(* Review model *)

is_approval(review) == review.state = APPROVED

is_approval_or_changes_requested(review) ==
    review.state \in {APPROVED, CHANGES_REQUESTED}

----------------------------------------------------------------------------
(* pull_request_approved_before_merging *)

\* A sort step that leaves the list in its upstream order.
InsertAtEnd(s, r) == Append(s, r)

\* A sort step that puts r before the elements of equal key (not stable).
InsertBeforeEqual(s, r) ==
    LET n == Cardinality({i \in 1..Len(s) : s[i].submitted_at < r.submitted_at})
    IN SubSeq(s, 1, n) \o <<r>> \o SubSeq(s, n + 1, Len(s))

\* One step of sorted(..., key=lambda r: r.submitted_at()): r goes after every
\* element whose key is not greater (Python's sort is stable).
InsertBySubmittedAt(s, r) ==
    LET n == Cardinality({i \in 1..Len(s) : s[i].submitted_at <= r.submitted_at})
    IN SubSeq(s, 1, n) \o <<r>> \o SubSeq(s, n + 1, Len(s))

RECURSIVE SortedBySubmittedAt(_)
SortedBySubmittedAt(s) ==
    IF s = <<>> THEN <<>>
    ELSE InsertBySubmittedAt(SortedBySubmittedAt(SubSeq(s, 1, Len(s) - 1)), s[Len(s)])

\* The pre-merge filter without the submitted_at() < merged_at test.
premerge_reviews_any_time(pr) ==
    SortedBySubmittedAt(SelectSeq(pr.reviews, is_approval_or_changes_requested))

premerge_reviews(pr) ==
    LET qualifies(review) ==
            /\ is_approval_or_changes_requested(review)
            /\ review.submitted_at < pr.merged_at[1]
    IN SortedBySubmittedAt(SelectSeq(pr.reviews, qualifies))

\* The follow-up filter keeping every author.
no_followup_reviews_unfiltered(reviews, cfg) == reviews

no_followup_reviews(reviews, cfg) ==
    LET regular(r) == r.author \notin cfg.FOLLOWUP_REVIEW_GITHUB_USERS
    IN SelectSeq(reviews, regular)

\* The evaluation without its assertion: an unmerged pull request goes on to
\* the merged_at test.
pull_request_approved_before_merging_unasserted(pr, cfg) ==
    IF pr.merged_at = None THEN NO
    ELSE LET premerge == premerge_reviews(pr)
             latest_review == premerge[Len(premerge)]
             no_followup == no_followup_reviews(premerge, cfg)
         IN IF Len(premerge) = 0 THEN NO
            ELSE IF ~is_approval(latest_review) THEN NO
            ELSE IF /\ latest_review.author \in cfg.FOLLOWUP_REVIEW_GITHUB_USERS
                    /\ \/ Len(no_followup) = 0
                       \/ ~is_approval(no_followup[Len(no_followup)])
                 THEN NEEDS_FOLLOWUP
            ELSE StatusAPPROVED

pull_request_approved_before_merging(pr, cfg) ==
    IF ~pr.merged THEN AssertionError
    ELSE IF pr.merged_at = None THEN NO
    ELSE LET premerge == premerge_reviews(pr)
             latest_review == premerge[Len(premerge)]
             no_followup == no_followup_reviews(premerge, cfg)
         IN IF Len(premerge) = 0 THEN NO
            ELSE IF ~is_approval(latest_review) THEN NO
            ELSE IF /\ latest_review.author \in cfg.FOLLOWUP_REVIEW_GITHUB_USERS
                    /\ \/ Len(no_followup) = 0
                       \/ ~is_approval(no_followup[Len(no_followup)])
                 THEN NEEDS_FOLLOWUP
            ELSE StatusAPPROVED

----------------------------------------------------------------------------
(* _is_approval_comment_body: texts are sequences of characters *)

UpperCase == <<"A", "B", "C", "D", "E", "F", "G", "H", "I", "J", "K", "L", "M",
               "N", "O", "P", "Q", "R", "S", "T", "U", "V", "W", "X", "Y", "Z">>
LowerCase == <<"a", "b", "c", "d", "e", "f", "g", "h", "i", "j", "k", "l", "m",
               "n", "o", "p", "q", "r", "s", "t", "u", "v", "w", "x", "y", "z">>

\* str.lower()
Lower(text) ==
    [i \in 1..Len(text) |->
        IF \E k \in 1..Len(UpperCase) : UpperCase[k] = text[i]
        THEN LowerCase[CHOOSE k \in 1..Len(UpperCase) : UpperCase[k] = text[i]]
        ELSE text[i]]

\* The characters \s matches.
Whitespace == {" ", "\t", "\n", "\r", "\f", "VT"}

THUMBS_UP == "U+1F44D"
SHIP == "U+1F6A2"

\* The alternatives of the regular expression; ship\s?it is spelt out.
ApprovalPatterns ==
    {<<"s", "g", "t", "m">>, <<"l", "g", "t", "m">>,
     <<"s", "o", "u", "n", "d", "s", " ", "g", "o", "o", "d">>,
     <<"s", "o", "u", "n", "d", " ", "g", "o", "o", "d">>,
     <<"l", "o", "o", "k", "s", " ", "g", "o", "o", "d">>,
     <<"l", "o", "o", "k", " ", "g", "o", "o", "d">>,
     <<"l", "o", "o", "k", "s", " ", "g", "r", "e", "a", "t">>,
     <<"l", "o", "o", "k", " ", "g", "r", "e", "a", "t">>,
     <<"+", "1">>, <<"s", "h", "i", "p", "i", "t">>, <<THUMBS_UP>>, <<SHIP>>}
        \cup {<<"s", "h", "i", "p", w, "i", "t">> : w \in Whitespace}

\* re.search(pattern, text) for a literal pattern
Search(pattern, text) ==
    \E i \in 1..(Len(text) - Len(pattern) + 1) :
        SubSeq(text, i, i + Len(pattern) - 1) = pattern

\* A matcher that forgets body.lower().
is_approval_comment_body_case_sensitive(body) ==
    \E pattern \in ApprovalPatterns : Search(pattern, body)

is_approval_comment_body(body) ==
    \E pattern \in ApprovalPatterns : Search(pattern, Lower(body))

----------------------------------------------------------------------------
(* pull_request_approved_after_merging *)

\* The comment filter with > in place of >=.
postmerge_comments_strict(pr, cfg) ==
    LET postmerge(comment) ==
            /\ comment.published_at > pr.merged_at[1]
            /\ comment.author # pr.author_handle
            /\ comment.author \notin cfg.FOLLOWUP_REVIEW_GITHUB_USERS
    IN SelectSeq(pr.comments, postmerge)

postmerge_comments(pr, cfg) ==
    LET postmerge(comment) ==
            /\ comment.published_at >= pr.merged_at[1]
            /\ comment.author # pr.author_handle
            /\ comment.author \notin cfg.FOLLOWUP_REVIEW_GITHUB_USERS
    IN SelectSeq(pr.comments, postmerge)

postmerge_reviews(pr, cfg) ==
    LET postmerge(review) ==
            /\ review.submitted_at >= pr.merged_at[1]
            /\ review.author \notin cfg.FOLLOWUP_REVIEW_GITHUB_USERS
    IN SelectSeq(pr.reviews, postmerge)

\* The evaluation taking every text as post-merge when merged_at is unknown.
pull_request_approved_after_merging_unknown_as_merged(pr, cfg) ==
    LET texts == [i \in 1..Len(pr.comments) |-> pr.comments[i].body]
                 \o [i \in 1..Len(pr.reviews) |-> pr.reviews[i].body]
        body_texts ==
            IF pr.merged_at = None THEN texts
            ELSE [i \in 1..Len(postmerge_comments(pr, cfg)) |->
                     postmerge_comments(pr, cfg)[i].body]
                 \o [i \in 1..Len(postmerge_reviews(pr, cfg)) |->
                     postmerge_reviews(pr, cfg)[i].body]
    IN SelectSeq(body_texts, is_approval_comment_body) # <<>>

pull_request_approved_after_merging(pr, cfg) ==
    IF pr.merged_at # None
    THEN LET body_texts ==
                 [i \in 1..Len(postmerge_comments(pr, cfg)) |->
                     postmerge_comments(pr, cfg)[i].body]
                 \o [i \in 1..Len(postmerge_reviews(pr, cfg)) |->
                     postmerge_reviews(pr, cfg)[i].body]
         IN SelectSeq(body_texts, is_approval_comment_body) # <<>>
    ELSE FALSE

----------------------------------------------------------------------------
(* Automerge helpers *)

pull_request_has_label(pr, label) == label \in pr.labels

is_mergeable(pr) == pr.mergeable = MERGEABLE

\* An openness test that forgets closed().
pull_request_is_not_merged(pr) == ~pr.merged

pull_request_is_open(pr) == ~pr.closed /\ ~pr.merged

----------------------------------------------------------------------------
(* _maybe_rerun_stale_checks *)

\* A check run is [database_id, completed_at]; a check suite is the list of
\* its check runs; a commit is the list of its check suites.

\* A staleness test that also takes a run that has not completed as stale.
is_check_run_stale_or_running(check_run, freshness_date) ==
    IF check_run.completed_at # None
    THEN check_run.completed_at[1] < freshness_date
    ELSE TRUE

is_check_run_stale(check_run, freshness_date) ==
    IF check_run.completed_at # None
    THEN check_run.completed_at[1] < freshness_date
    ELSE FALSE

\* A scan that does not break: the last stale run of the suite.
last_stale_check_run(check_suite, freshness_date) ==
    LET stale == {j \in 1..Len(check_suite) :
                    is_check_run_stale(check_suite[j], freshness_date)}
    IN IF stale = {} THEN None
       ELSE Some(check_suite[CHOOSE j \in stale : \A k \in stale : k <= j])

\* The inner loop: the run at which the scan of a suite breaks, if any.
first_stale_check_run(check_suite, freshness_date) ==
    LET stale == {j \in 1..Len(check_suite) :
                    is_check_run_stale(check_suite[j], freshness_date)}
    IN IF stale = {} THEN None
       ELSE Some(check_suite[CHOOSE j \in stale : \A k \in stale : j <= k])

\* The outer loop: the database ids passed to rerequest_check_run, in order.
rerequested_check_runs(check_suites, freshness_date) ==
    LET scan[k \in 0..Len(check_suites)] ==
            IF k = 0 THEN <<>>
            ELSE LET found == first_stale_check_run(check_suites[k], freshness_date)
                 IN IF found = None THEN scan[k - 1]
                    ELSE Append(scan[k - 1], found[1].database_id)
    IN scan[Len(check_suites)]

\* The rerunner reporting a rerun whenever it requested one, whatever
\* rerequest_check_run answered.
maybe_rerun_stale_checks_ignoring_answer(pr, cfg, time, accepted) ==
    IF pr.base_ref_name \notin cfg.CHECK_RERUN_BASE_REF_NAMES
    THEN [rerequested |-> <<>>, did_rerun |-> FALSE]
    ELSE IF cfg.CHECK_RERUN_THRESHOLD_HOURS <= 0
    THEN [rerequested |-> <<>>, did_rerun |-> FALSE]
    ELSE LET freshness_date == time - cfg.CHECK_RERUN_THRESHOLD_HOURS
             ids == rerequested_check_runs(pr.commits[1], freshness_date)
         IN [rerequested |-> ids, did_rerun |-> ids # <<>>]

\* The rerunner switched off by a threshold of exactly 0 only.
maybe_rerun_stale_checks_zero_only(pr, cfg, time, accepted) ==
    IF pr.base_ref_name \notin cfg.CHECK_RERUN_BASE_REF_NAMES
    THEN [rerequested |-> <<>>, did_rerun |-> FALSE]
    ELSE IF cfg.CHECK_RERUN_THRESHOLD_HOURS = 0
    THEN [rerequested |-> <<>>, did_rerun |-> FALSE]
    ELSE LET freshness_date == time - cfg.CHECK_RERUN_THRESHOLD_HOURS
             ids == rerequested_check_runs(pr.commits[1], freshness_date)
         IN [rerequested |-> ids,
             did_rerun |-> \E i \in 1..Len(ids) : ids[i] \in accepted]

\* accepted: the database ids for which rerequest_check_run returns True.
\* The result is the ids rerequested and the value returned.
maybe_rerun_stale_checks(pr, cfg, time, accepted) ==
    IF pr.base_ref_name \notin cfg.CHECK_RERUN_BASE_REF_NAMES
    THEN [rerequested |-> <<>>, did_rerun |-> FALSE]
    ELSE IF cfg.CHECK_RERUN_THRESHOLD_HOURS <= 0
    THEN [rerequested |-> <<>>, did_rerun |-> FALSE]
    ELSE LET freshness_date == time - cfg.CHECK_RERUN_THRESHOLD_HOURS
             ids == rerequested_check_runs(pr.commits[1], freshness_date)
         IN [rerequested |-> ids,
             did_rerun |-> \E i \in 1..Len(ids) : ids[i] \in accepted]

NoRerun == [rerequested |-> <<>>, did_rerun |-> FALSE]

----------------------------------------------------------------------------
(* maybe_automerge_pull_request_and_rerun_stale_checks *)

\* The chain with the approval-requiring label tested before AFTER_TESTS.
automerge_branch_approval_first(pr, cfg) ==
    IF ~cfg.AUTOMERGE_ENABLED \/ ~pull_request_is_open(pr) THEN "skip"
    ELSE IF pull_request_has_label(pr, IMMEDIATELY) THEN IMMEDIATELY
    ELSE IF pull_request_has_label(pr, AFTER_TESTS_AND_APPROVAL)
         THEN AFTER_TESTS_AND_APPROVAL
    ELSE IF pull_request_has_label(pr, AFTER_TESTS) THEN AFTER_TESTS
    ELSE IF pull_request_has_label(pr, AFTER_APPROVAL) THEN AFTER_APPROVAL
    ELSE "none"

\* The chain entered whether the pull request is open or not.
automerge_branch_ignoring_state(pr, cfg) ==
    IF ~cfg.AUTOMERGE_ENABLED THEN "skip"
    ELSE IF pull_request_has_label(pr, IMMEDIATELY) THEN IMMEDIATELY
    ELSE IF pull_request_has_label(pr, AFTER_TESTS) THEN AFTER_TESTS
    ELSE IF pull_request_has_label(pr, AFTER_TESTS_AND_APPROVAL)
         THEN AFTER_TESTS_AND_APPROVAL
    ELSE IF pull_request_has_label(pr, AFTER_APPROVAL) THEN AFTER_APPROVAL
    ELSE "none"

\* The branch of the if/elif chain that is taken.
automerge_branch(pr, cfg) ==
    IF ~cfg.AUTOMERGE_ENABLED \/ ~pull_request_is_open(pr) THEN "skip"
    ELSE IF pull_request_has_label(pr, IMMEDIATELY) THEN IMMEDIATELY
    ELSE IF pull_request_has_label(pr, AFTER_TESTS) THEN AFTER_TESTS
    ELSE IF pull_request_has_label(pr, AFTER_TESTS_AND_APPROVAL)
         THEN AFTER_TESTS_AND_APPROVAL
    ELSE IF pull_request_has_label(pr, AFTER_APPROVAL) THEN AFTER_APPROVAL
    ELSE "none"

\* The readiness test with IMMEDIATELY demanding a MERGEABLE state.
is_pull_request_ready_for_automerge_strict(pr, branch) ==
    IF branch = IMMEDIATELY THEN is_mergeable(pr)
    ELSE IF branch = AFTER_TESTS THEN pr.is_build_successful /\ is_mergeable(pr)
    ELSE IF branch = AFTER_TESTS_AND_APPROVAL
         THEN pr.is_build_successful /\ is_mergeable(pr) /\ pr.is_approved
    ELSE IF branch = AFTER_APPROVAL THEN is_mergeable(pr) /\ pr.is_approved
    ELSE FALSE

\* The readiness test with AFTER_APPROVAL accepting an UNKNOWN merge state.
is_pull_request_ready_for_automerge_optimistic(pr, branch) ==
    IF branch = IMMEDIATELY THEN pr.mergeable \in {MERGEABLE, UNKNOWN}
    ELSE IF branch = AFTER_TESTS THEN pr.is_build_successful /\ is_mergeable(pr)
    ELSE IF branch = AFTER_TESTS_AND_APPROVAL
         THEN pr.is_build_successful /\ is_mergeable(pr) /\ pr.is_approved
    ELSE IF branch = AFTER_APPROVAL
         THEN pr.mergeable \in {MERGEABLE, UNKNOWN} /\ pr.is_approved
    ELSE FALSE

\* is_pull_request_ready_for_automerge as the taken branch assigns it.
is_pull_request_ready_for_automerge(pr, branch) ==
    IF branch = IMMEDIATELY THEN pr.mergeable \in {MERGEABLE, UNKNOWN}
    ELSE IF branch = AFTER_TESTS THEN pr.is_build_successful /\ is_mergeable(pr)
    ELSE IF branch = AFTER_TESTS_AND_APPROVAL
         THEN pr.is_build_successful /\ is_mergeable(pr) /\ pr.is_approved
    ELSE IF branch = AFTER_APPROVAL THEN is_mergeable(pr) /\ pr.is_approved
    ELSE FALSE

\* The rerun attempted by every branch that is ready.
automerge_rerun_any_branch(pr, cfg, time, accepted, branch, ready) ==
    IF ready THEN maybe_rerun_stale_checks(pr, cfg, time, accepted) ELSE NoRerun

\* The rerun made by the taken branch: only the two branches that require
\* tests call _maybe_rerun_stale_checks, and only when ready.
automerge_rerun(pr, cfg, time, accepted, branch, ready) ==
    IF branch \in {AFTER_TESTS, AFTER_TESTS_AND_APPROVAL} /\ ready
    THEN maybe_rerun_stale_checks(pr, cfg, time, accepted)
    ELSE NoRerun

\* The merge decision taken even after a rerun.
automerge_merges_despite_rerun(ready, did_rerun_stale_required_checks) == ready

\* Line 300: whether merge_pull_request is called.
automerge_merges(ready, did_rerun_stale_required_checks) ==
    ready /\ ~did_rerun_stale_required_checks

\* The entry point returning its readiness flag instead of whether it merged.
maybe_automerge_returning_ready(pr, cfg, time, accepted) ==
    LET branch == automerge_branch(pr, cfg)
        ready == is_pull_request_ready_for_automerge(pr, branch)
        rerun == automerge_rerun(pr, cfg, time, accepted, branch, ready)
        merges == automerge_merges(ready, rerun.did_rerun)
    IN [branch |-> branch, ready |-> ready, rerequested |-> rerun.rerequested,
        did_rerun |-> rerun.did_rerun, merged |-> merges, ret |-> ready]

maybe_automerge_pull_request_and_rerun_stale_checks(pr, cfg, time, accepted) ==
    LET branch == automerge_branch(pr, cfg)
        ready == is_pull_request_ready_for_automerge(pr, branch)
        rerun == automerge_rerun(pr, cfg, time, accepted, branch, ready)
        merges == automerge_merges(ready, rerun.did_rerun)
    IN [branch |-> branch, ready |-> ready, rerequested |-> rerun.rerequested,
        did_rerun |-> rerun.did_rerun, merged |-> merges, ret |-> merges]

----------------------------------------------------------------------------
(* maybe_rerun_stale_checks_on_approved_pull_request *)

\* The entry point without the test that the pull request is open.
maybe_rerun_stale_checks_on_closed_pull_request(pr, cfg, time, accepted) ==
    IF cfg.CHECK_RERUN_ON_APPROVAL_ENABLED /\ pr.is_approved
    THEN maybe_rerun_stale_checks(pr, cfg, time, accepted)
    ELSE NoRerun

maybe_rerun_stale_checks_on_approved_pull_request(pr, cfg, time, accepted) ==
    IF /\ cfg.CHECK_RERUN_ON_APPROVAL_ENABLED
       /\ pull_request_is_open(pr)
       /\ pr.is_approved
    THEN maybe_rerun_stale_checks(pr, cfg, time, accepted)
    ELSE NoRerun

----------------------------------------------------------------------------
(* maybe_add_automerge_warning_comment *)

AUTOMERGE_COMMENT_WARNING_AFTER_TESTS_AND_APPROVAL ==
    <<"**:warning: Reviewer:** If you approve this PR, it will be auto-merged as soon as tests pass. If you don't want this to be auto-merged, either Request Changes or remove the auto-merge label before accepting.">>

AUTOMERGE_COMMENT_WARNING_AFTER_APPROVAL ==
    <<"**:warning: Reviewer:** If you approve this PR, it will be auto-merged immediately. If you don't want this to be auto-merged, either Request Changes or remove the auto-merge label before accepting.">>

\* A test that never finds the warning.
pull_request_has_no_automerge_comment(pr, automerge_comment) == FALSE

pull_request_has_automerge_comment(pr, automerge_comment) ==
    \E i \in 1..Len(pr.comments) : pr.comments[i].body = automerge_comment

automerge_comment_for(pr) ==
    IF pull_request_has_label(pr, AFTER_TESTS_AND_APPROVAL)
    THEN AUTOMERGE_COMMENT_WARNING_AFTER_TESTS_AND_APPROVAL
    ELSE AUTOMERGE_COMMENT_WARNING_AFTER_APPROVAL

\* The warning posted whether the pull request is approved or not.
maybe_add_automerge_warning_comment_when_approved(pr, cfg) ==
    IF cfg.AUTOMERGE_ENABLED
    THEN IF /\ \/ pull_request_has_label(pr, AFTER_TESTS_AND_APPROVAL)
               \/ pull_request_has_label(pr, AFTER_APPROVAL)
            /\ ~pull_request_has_automerge_comment(pr, automerge_comment_for(pr))
         THEN <<automerge_comment_for(pr)>>
         ELSE <<>>
    ELSE <<>>

\* The bodies passed to add_pr_comment, in order.
maybe_add_automerge_warning_comment(pr, cfg) ==
    IF cfg.AUTOMERGE_ENABLED
    THEN IF /\ \/ pull_request_has_label(pr, AFTER_TESTS_AND_APPROVAL)
               \/ pull_request_has_label(pr, AFTER_APPROVAL)
            /\ ~pull_request_has_automerge_comment(pr, automerge_comment_for(pr))
            /\ ~pr.is_approved
         THEN <<automerge_comment_for(pr)>>
         ELSE <<>>
    ELSE <<>>

----------------------------------------------------------------------------
(* State shared by the entry points *)

\* A pull request with nothing on it; the specifications fill in the fields
\* their entry points read.
EmptyPullRequest ==
    [author_handle |-> "carol", labels |-> {}, closed |-> FALSE, merged |-> FALSE,
     merged_at |-> None, mergeable |-> MERGEABLE, is_build_successful |-> FALSE,
     is_approved |-> FALSE, base_ref_name |-> "main", reviews |-> <<>>,
     comments |-> <<>>, commits |-> <<>>]

DefaultConfig ==
    [AUTOMERGE_ENABLED |-> TRUE, FOLLOWUP_REVIEW_GITHUB_USERS |-> {},
     CHECK_RERUN_THRESHOLD_HOURS |-> 0, CHECK_RERUN_BASE_REF_NAMES |-> {"main"},
     CHECK_RERUN_ON_APPROVAL_ENABLED |-> FALSE]

NoGithubCalls == [merge_pull_request |-> 0, rerequest_check_run |-> {}, add_pr_comment |-> 0]

NoCall ==
    [op |-> "none", snapshot |-> EmptyPullRequest, at |-> 0, ret |-> FALSE,
     merged |-> FALSE, rerequested |-> <<>>, accepted |-> {}, commented |-> <<>>,
     branch |-> "none", ready |-> FALSE]

\* GitHub after rerequest_check_run succeeded for the runs in ids: they run again.
Rerequested(commits, ids) ==
    [c \in DOMAIN commits |->
        [s \in DOMAIN commits[c] |->
            [r \in DOMAIN commits[c][s] |->
                IF commits[c][s][r].database_id \in ids
                THEN [commits[c][s][r] EXCEPT !.completed_at = None]
                ELSE commits[c][s][r]]]]

\* GitHub after merge_pull_request.
Merged(pr, time) ==
    [pr EXCEPT !.merged = TRUE, !.closed = TRUE, !.merged_at = Some(time)]

\* No delivery is being handled.
NoWebhooks == [serialized |-> FALSE, lock |-> None, handler |-> <<>>]

SeqToSet(s) == {s[i] : i \in 1..Len(s)}

\* The check runs about which a call asks rerequest_check_run; the answers
\* (accepted) are GitHub's to give.
Asked(result) == SeqToSet(result.rerequested)

\* A pure entry point: nothing but its result.
Returned(op, pr, result) ==
    [NoCall EXCEPT !.op = op, !.snapshot = pr, !.at = now, !.ret = result]

----------------------------------------------------------------------------
(* Automerge: the pull request on GitHub, the webhook-driven call, and what
   GitHub does between calls *)

BaseRefs == {"main", "feature"}
ThresholdHours == {0, 1}

\* completed_at of a check run at time t: still running, completed at hour 0,
\* or completed just now.
Completions(t) == {None, Some(0), Some(t)}

WithDatabaseIds(shape) ==
    [c \in DOMAIN shape |->
        [s \in DOMAIN shape[c] |->
            [r \in DOMAIN shape[c][s] |->
                [database_id |-> 100 * c + 10 * s + r,
                 completed_at |-> shape[c][s][r]]]]]

\* A sole commit with no check suite, or with one of at most MaxRuns runs.
SoleCommit(t) ==
    {WithDatabaseIds(<<suites>>) : suites \in SeqUpTo(SeqUpTo(Completions(t), MaxRuns), 1)}

\* Open, closed without merge, or merged.
Statuses ==
    {[closed |-> FALSE, merged |-> FALSE, merged_at |-> None],
     [closed |-> TRUE, merged |-> FALSE, merged_at |-> None],
     [closed |-> TRUE, merged |-> TRUE, merged_at |-> Some(1)]}

Init ==
    /\ now = MaxTime - 2
    /\ \E ls \in SUBSET AutomergeLabels, st \in Statuses, m \in MergeableStates,
          b \in BOOLEAN, a \in BOOLEAN, ref \in BaseRefs, cs \in SoleCommit(now) :
          pull_request =
              [EmptyPullRequest EXCEPT !.labels = ls, !.closed = st.closed,
                                      !.merged = st.merged, !.merged_at = st.merged_at,
                                      !.mergeable = m, !.is_build_successful = b,
                                      !.is_approved = a, !.base_ref_name = ref,
                                      !.commits = cs]
    /\ config \in {[DefaultConfig EXCEPT !.AUTOMERGE_ENABLED = e,
                                         !.CHECK_RERUN_THRESHOLD_HOURS = h] :
                      e \in BOOLEAN, h \in ThresholdHours}
    /\ github = NoGithubCalls
    /\ call = NoCall
    /\ webhooks = NoWebhooks

\* One call of maybe_automerge_pull_request_and_rerun_stale_checks on the
\* current pull request, with the calls it makes to github_client.
MaybeAutomerge ==
    \E accepted \in SUBSET Asked(maybe_automerge_pull_request_and_rerun_stale_checks(
                                 pull_request, config, now, {})) :
        LET res == maybe_automerge_pull_request_and_rerun_stale_checks(
                       pull_request, config, now, accepted)
            ids == SeqToSet(res.rerequested)
            rerun == [pull_request EXCEPT !.commits = Rerequested(@, ids \cap accepted)]
        IN /\ pull_request' = IF res.merged THEN Merged(rerun, now) ELSE rerun
           /\ github' = [github EXCEPT
                             !.merge_pull_request = IF res.merged THEN @ + 1 ELSE @,
                             !.rerequest_check_run = @ \cup ids]
           /\ call' = [NoCall EXCEPT
                           !.op = "maybe_automerge_pull_request_and_rerun_stale_checks",
                           !.snapshot = pull_request, !.at = now, !.ret = res.ret,
                           !.merged = res.merged, !.rerequested = res.rerequested,
                           !.accepted = ids \cap accepted, !.branch = res.branch,
                           !.ready = res.ready]
           /\ UNCHANGED <<config, now, webhooks>>

\* A check run that is running completes.
CheckRunCompletes ==
    \E c \in DOMAIN pull_request.commits :
      \E s \in DOMAIN pull_request.commits[c] :
        \E r \in DOMAIN pull_request.commits[c][s] :
            /\ pull_request.commits[c][s][r].completed_at = None
            /\ pull_request' =
                  [pull_request EXCEPT !.commits[c][s][r].completed_at = Some(now)]
            /\ UNCHANGED <<config, now, github, call, webhooks>>

\* An hour passes.
Tick ==
    /\ now < MaxTime
    /\ now' = now + 1
    /\ UNCHANGED <<pull_request, config, github, call, webhooks>>

Next == MaybeAutomerge \/ CheckRunCompletes \/ Tick

Spec == Init /\ [][Next]_vars

----------------------------------------------------------------------------
(* Claims on the automerge label policy *)

CalledAutomerge == call.op = "maybe_automerge_pull_request_and_rerun_stale_checks"

\* The feature is enabled and the pull request of the call was open.
Evaluated ==
    /\ CalledAutomerge
    /\ config.AUTOMERGE_ENABLED
    /\ ~call.snapshot.closed
    /\ ~call.snapshot.merged

\* The readiness predicates of the four labels, as tabulated.
Approved(pr) == pr.is_approved
BuildSuccessful(pr) == pr.is_build_successful
Mergeable(pr) == pr.mergeable = MERGEABLE

Predicate(label, pr) ==
    CASE label = IMMEDIATELY -> pr.mergeable \in {MERGEABLE, UNKNOWN}
      [] label = AFTER_TESTS -> BuildSuccessful(pr) /\ Mergeable(pr)
      [] label = AFTER_TESTS_AND_APPROVAL ->
            BuildSuccessful(pr) /\ Mergeable(pr) /\ Approved(pr)
      [] label = AFTER_APPROVAL -> Mergeable(pr) /\ Approved(pr)

\* The first label of order that the pull request carries.
FirstPresent(order, pr) ==
    order[CHOOSE i \in 1..Len(order) :
            /\ order[i] \in pr.labels
            /\ \A j \in 1..(i - 1) : order[j] \notin pr.labels]

StatedPrecedence == <<IMMEDIATELY, AFTER_TESTS_AND_APPROVAL, AFTER_TESTS, AFTER_APPROVAL>>
CodePrecedence == <<IMMEDIATELY, AFTER_TESTS, AFTER_TESTS_AND_APPROVAL, AFTER_APPROVAL>>

SeveralLabels(pr) == Cardinality(pr.labels \cap AutomergeLabels) > 1

\* The call evaluated the predicate of the first label of order and of no
\* other: readiness is that predicate, and nothing is merged without it.
GatedByFirstOf(order) ==
    LET pr == call.snapshot
        label == FirstPresent(order, pr)
    IN /\ call.ready = Predicate(label, pr)
       /\ call.merged => Predicate(label, pr)

\* C6 as stated: with several automerge labels the predicate evaluated is
\* that of the first label in the order IMMEDIATELY > AFTER_TESTS_AND_APPROVAL
\* > AFTER_TESTS > AFTER_APPROVAL; with both AFTER_TESTS_AND_APPROVAL and
\* AFTER_TESTS the pull request is not merged while unapproved.
C6_StatedPrecedence ==
    (Evaluated /\ SeveralLabels(call.snapshot)) => GatedByFirstOf(StatedPrecedence)

\* C6 amended: with several automerge labels the predicate evaluated is that
\* of the first label in the order IMMEDIATELY > AFTER_TESTS >
\* AFTER_TESTS_AND_APPROVAL > AFTER_APPROVAL; with both
\* AFTER_TESTS_AND_APPROVAL and AFTER_TESTS (and not IMMEDIATELY) the pull
\* request is gated by the AFTER_TESTS predicate, approval playing no part.
C6_CodePrecedence ==
    (Evaluated /\ SeveralLabels(call.snapshot)) =>
        /\ GatedByFirstOf(CodePrecedence)
        /\ call.branch = FirstPresent(CodePrecedence, call.snapshot)
        /\ ({AFTER_TESTS_AND_APPROVAL, AFTER_TESTS} \subseteq call.snapshot.labels
              /\ IMMEDIATELY \notin call.snapshot.labels)
             => call.ready = Predicate(AFTER_TESTS, call.snapshot)

\* Both test labels, unapproved, and merged by the call.
C6_Witness ==
    /\ Evaluated
    /\ call.snapshot.labels = {AFTER_TESTS_AND_APPROVAL, AFTER_TESTS}
    /\ ~call.snapshot.is_approved
    /\ call.branch = AFTER_TESTS
    /\ call.merged
    /\ pull_request.merged

\* C7: with both IMMEDIATELY and AFTER_APPROVAL on an open pull request
\* (feature enabled) only the IMMEDIATELY predicate is evaluated: the merge
\* is issued iff the merge state is MERGEABLE or UNKNOWN, whatever the
\* approval and build signals.
C7_ImmediatelyOverridesApproval ==
    (Evaluated /\ {IMMEDIATELY, AFTER_APPROVAL} \subseteq call.snapshot.labels) =>
        /\ call.branch = IMMEDIATELY
        /\ call.merged = (call.snapshot.mergeable \in {MERGEABLE, UNKNOWN})
        /\ call.ret = call.merged
        /\ call.rerequested = <<>>

\* Unapproved, build failed, merge state UNKNOWN: merged all the same.
C7_Witness ==
    /\ Evaluated
    /\ call.snapshot.labels = {IMMEDIATELY, AFTER_APPROVAL}
    /\ ~call.snapshot.is_approved
    /\ ~call.snapshot.is_build_successful
    /\ call.snapshot.mergeable = UNKNOWN
    /\ call.merged
    /\ github.merge_pull_request = 1

----------------------------------------------------------------------------
(* The deferred merge *)

\* An open pull request whose automerge label is AFTER_TESTS, build
\* successful and mergeable, whose sole commit has one check suite with one
\* check run, which has completed.
AfterTestsScenario(pr) ==
    /\ config.AUTOMERGE_ENABLED
    /\ ~pr.closed /\ ~pr.merged
    /\ pr.labels \cap AutomergeLabels = {AFTER_TESTS}
    /\ pr.is_build_successful
    /\ pr.mergeable = MERGEABLE
    /\ Len(pr.commits) = 1
    /\ Len(pr.commits[1]) = 1
    /\ Len(pr.commits[1][1]) = 1
    /\ pr.commits[1][1][1].completed_at # None

TheRun(pr) == pr.commits[1][1][1]

\* Completed strictly before the freshness boundary of a call made at time t.
Stale(check_run, t) ==
    check_run.completed_at[1] < t - config.CHECK_RERUN_THRESHOLD_HOURS

RerunConfigured(pr) ==
    /\ pr.base_ref_name \in config.CHECK_RERUN_BASE_REF_NAMES
    /\ config.CHECK_RERUN_THRESHOLD_HOURS > 0

Deferred ==
    /\ call.rerequested = <<TheRun(call.snapshot).database_id>>
    /\ ~call.merged
    /\ call.ret = FALSE

MergedNow ==
    /\ call.rerequested = <<>>
    /\ call.merged
    /\ call.ret = TRUE

\* The call follows an earlier one that rerequested the run, which has
\* completed again since and is fresh.
SecondCall ==
    /\ CalledAutomerge
    /\ AfterTestsScenario(call.snapshot)
    /\ ~Stale(TheRun(call.snapshot), call.at)
    /\ TheRun(call.snapshot).database_id \in github.rerequest_check_run

----------------------------------------------------------------------------
(* Merge and rerun within one call *)

\* The predicate of the label the call selects holds of pr, an open pull
\* request evaluated with the feature enabled.
SelectedReady(pr) ==
    /\ config.AUTOMERGE_ENABLED
    /\ ~pr.closed /\ ~pr.merged
    /\ pr.labels \cap AutomergeLabels # {}
    /\ Predicate(FirstPresent(CodePrecedence, pr), pr)

\* The call asked GitHub to rerun some check run.
RerunRequested == call.rerequested # <<>>

\* rerequest_check_run answered True for some check run of the call.
RerunReported == call.accepted # {}

\* C11 as stated: the merge call is issued iff the selected predicate is
\* ready and the call requested no check rerun; the call returns true iff it
\* merged; no call both requests a check rerun and merges.
C11_Stated ==
    CalledAutomerge =>
        /\ call.merged = (SelectedReady(call.snapshot) /\ ~RerunRequested)
        /\ call.ret = call.merged
        /\ ~(RerunRequested /\ call.merged)

\* C11 amended: the merge call is issued iff the selected predicate is ready
\* and no rerequest_check_run of the call reported a rerun as made; the call
\* returns true iff it merged; no call both has a rerun reported as made and
\* merges (a call all of whose rerequests are reported as not made merges).
C11_MergeIffReadyAndNoRerunReported ==
    CalledAutomerge =>
        /\ call.merged = (SelectedReady(call.snapshot) /\ ~RerunReported)
        /\ call.ret = call.merged
        /\ ~(RerunReported /\ call.merged)
        /\ (SelectedReady(call.snapshot) /\ RerunRequested /\ ~RerunReported)
              => call.merged

\* An approved pull request labelled AFTER_TESTS_AND_APPROVAL, ready, with a
\* stale run whose rerun was reported as made: not merged, false returned.
C11_Witness ==
    /\ CalledAutomerge
    /\ call.snapshot.labels = {AFTER_TESTS_AND_APPROVAL}
    /\ SelectedReady(call.snapshot)
    /\ RerunReported
    /\ ~call.merged
    /\ call.ret = FALSE
    /\ ~pull_request.merged
    /\ github.merge_pull_request = 0

----------------------------------------------------------------------------
(* Calls that must do nothing, the readiness table, and who reruns *)

\* C12: with the automerge feature disabled, or on a pull request already
\* closed or merged, the call returns false and issues no merge call and no
\* check-rerun call, whatever the labels, merge state, build and approval
\* signals.
C12_DisabledOrNotOpenDoesNothing ==
    (/\ CalledAutomerge
     /\ \/ ~config.AUTOMERGE_ENABLED
        \/ call.snapshot.closed
        \/ call.snapshot.merged)
        => /\ call.ret = FALSE
           /\ ~call.merged
           /\ call.rerequested = <<>>
           /\ call.accepted = {}

\* A pull request closed without merge, labelled AFTER_TESTS, build
\* successful, mergeable and approved, with a stale check run and the
\* rerunner configured: nothing is done.
C12_Witness ==
    /\ CalledAutomerge
    /\ config.AUTOMERGE_ENABLED
    /\ call.snapshot.closed /\ ~call.snapshot.merged
    /\ call.snapshot.labels = {AFTER_TESTS}
    /\ call.snapshot.is_build_successful
    /\ call.snapshot.mergeable = MERGEABLE
    /\ call.snapshot.is_approved
    /\ RerunConfigured(call.snapshot)
    /\ Len(call.snapshot.commits[1]) = 1
    /\ Len(call.snapshot.commits[1][1]) = 1
    /\ TheRun(call.snapshot).completed_at # None
    /\ Stale(TheRun(call.snapshot), call.at)
    /\ call.ret = FALSE
    /\ github = NoGithubCalls

\* The automerge label of a pull request that carries exactly one.
OnlyLabel(pr) == CHOOSE label \in pr.labels \cap AutomergeLabels : TRUE

\* C16: for an open pull request with the feature enabled and exactly one
\* automerge label the call finds it ready iff, IMMEDIATELY: the merge state
\* is MERGEABLE or UNKNOWN; AFTER_TESTS: build successful and MERGEABLE;
\* AFTER_TESTS_AND_APPROVAL: build successful, MERGEABLE and approved;
\* AFTER_APPROVAL: MERGEABLE and approved.  Nothing is merged unless ready.
C16_ReadinessTable ==
    (Evaluated /\ Cardinality(call.snapshot.labels \cap AutomergeLabels) = 1) =>
        LET pr == call.snapshot
            label == OnlyLabel(pr)
            stated ==
                \/ label = IMMEDIATELY /\ pr.mergeable \in {MERGEABLE, UNKNOWN}
                \/ label = AFTER_TESTS
                      /\ pr.is_build_successful /\ pr.mergeable = MERGEABLE
                \/ label = AFTER_TESTS_AND_APPROVAL
                      /\ pr.is_build_successful /\ pr.mergeable = MERGEABLE
                      /\ pr.is_approved
                \/ label = AFTER_APPROVAL
                      /\ pr.mergeable = MERGEABLE /\ pr.is_approved
        IN /\ call.ready = stated
           /\ call.merged => stated
           /\ (stated /\ call.rerequested = <<>>) => call.merged

\* AFTER_APPROVAL alone, approved, merge state UNKNOWN: not ready, not merged.
C16_Witness ==
    /\ Evaluated
    /\ call.snapshot.labels = {AFTER_APPROVAL}
    /\ call.snapshot.is_approved
    /\ call.snapshot.is_build_successful
    /\ call.snapshot.mergeable = UNKNOWN
    /\ ~call.ready
    /\ ~call.merged
    /\ call.ret = FALSE
    /\ github.merge_pull_request = 0

\* The label the call selects is one of the two that require tests.
SelectsTests(pr) ==
    /\ pr.labels \cap AutomergeLabels # {}
    /\ FirstPresent(CodePrecedence, pr) \in {AFTER_TESTS, AFTER_TESTS_AND_APPROVAL}

\* C18: a call requests check reruns only when the selected label is
\* AFTER_TESTS or AFTER_TESTS_AND_APPROVAL and that label's predicate is
\* satisfied; a call on a pull request that is not ready, whose selected
\* label is IMMEDIATELY or AFTER_APPROVAL, or that has no automerge label
\* requests no rerun, and returns false or merges (returning true).
C18_RerunOnlyForReadyTestLabels ==
    CalledAutomerge =>
        /\ call.rerequested # <<>>
              => SelectedReady(call.snapshot) /\ SelectsTests(call.snapshot)
        /\ (~SelectedReady(call.snapshot) \/ ~SelectsTests(call.snapshot))
              => /\ call.rerequested = <<>>
                 /\ call.ret \in BOOLEAN
                 /\ call.ret = call.merged
                 /\ call.merged = SelectedReady(call.snapshot)
        /\ call.snapshot.labels \cap AutomergeLabels = {}
              => call.ret = FALSE /\ ~call.merged

\* AFTER_APPROVAL alone, ready, with a stale check run and the rerunner
\* configured: merged at once, no rerun requested.
C18_Witness ==
    /\ Evaluated
    /\ call.snapshot.labels = {AFTER_APPROVAL}
    /\ SelectedReady(call.snapshot)
    /\ RerunConfigured(call.snapshot)
    /\ Len(call.snapshot.commits[1]) = 1
    /\ Len(call.snapshot.commits[1][1]) = 1
    /\ TheRun(call.snapshot).completed_at # None
    /\ Stale(TheRun(call.snapshot), call.at)
    /\ call.rerequested = <<>>
    /\ call.merged
    /\ call.ret = TRUE
    /\ github.rerequest_check_run = {}

----------------------------------------------------------------------------
(* The stale check rerunner, called for an approved pull request *)

\* The first commit with up to two check suites of at most MaxScannedRuns
\* runs; possibly a second commit, which the rerunner is not to look at,
\* with one check suite of one run.
ScannedCommits(t) ==
    {WithDatabaseIds(<<first>> \o later) :
        first \in SeqUpTo(SeqUpTo(Completions(t), MaxScannedRuns), 2),
        later \in SeqUpTo([1..1 -> [1..1 -> Completions(t)]], 1)}

\* The thresholds of the automerge specification and a negative one.
RerunThresholdHours == ThresholdHours \cup {-1}

InitRerun ==
    /\ now = MaxTime - 1
    /\ \E st \in Statuses, a \in BOOLEAN, ref \in BaseRefs, cs \in ScannedCommits(now) :
          pull_request =
              [EmptyPullRequest EXCEPT !.closed = st.closed, !.merged = st.merged,
                                      !.merged_at = st.merged_at, !.is_approved = a,
                                      !.base_ref_name = ref, !.commits = cs]
    /\ config \in {[DefaultConfig EXCEPT !.CHECK_RERUN_ON_APPROVAL_ENABLED = e,
                                         !.CHECK_RERUN_THRESHOLD_HOURS = h] :
                      e \in BOOLEAN, h \in RerunThresholdHours}
    /\ github = NoGithubCalls
    /\ call = NoCall
    /\ webhooks = NoWebhooks

\* One call of maybe_rerun_stale_checks_on_approved_pull_request.
MaybeRerunOnApproval ==
    \E accepted \in SUBSET Asked(maybe_rerun_stale_checks_on_approved_pull_request(
                                 pull_request, config, now, {})) :
        LET res == maybe_rerun_stale_checks_on_approved_pull_request(
                       pull_request, config, now, accepted)
            ids == SeqToSet(res.rerequested)
        IN /\ pull_request' =
                 [pull_request EXCEPT !.commits = Rerequested(@, ids \cap accepted)]
           /\ github' = [github EXCEPT !.rerequest_check_run = @ \cup ids]
           /\ call' = [NoCall EXCEPT
                           !.op = "maybe_rerun_stale_checks_on_approved_pull_request",
                           !.snapshot = pull_request, !.at = now, !.ret = res.did_rerun,
                           !.rerequested = res.rerequested,
                           !.accepted = ids \cap accepted]
           /\ UNCHANGED <<config, now, webhooks>>

NextRerun == MaybeRerunOnApproval

SpecRerun == InitRerun /\ [][NextRerun]_vars

----------------------------------------------------------------------------
(* Claims on the stale check rerunner *)

CalledRerun == call.op = "maybe_rerun_stale_checks_on_approved_pull_request"

\* The check runs of suite s of commit c whose rerun the call requested.
RerequestedIn(c, s) ==
    {r \in DOMAIN call.snapshot.commits[c][s] :
        call.snapshot.commits[c][s][r].database_id \in SeqToSet(call.rerequested)}

CompletedBeforeBoundary(check_run) ==
    /\ check_run.completed_at # None
    /\ check_run.completed_at[1] < call.at - config.CHECK_RERUN_THRESHOLD_HOURS

\* C8: a call of the rerunner requests at most one rerun per check suite and
\* none for a check run whose completed_at is null; the run rerequested in a
\* suite is the first in scan order that completed strictly before the
\* freshness boundary; only the check suites of the first commit are scanned.
C8_OneRerunPerSuiteOfFirstCommit ==
    CalledRerun =>
        LET commits == call.snapshot.commits
        IN /\ \A i, j \in 1..Len(call.rerequested) :
                 call.rerequested[i] = call.rerequested[j] => i = j
           /\ \A c \in DOMAIN commits : \A s \in DOMAIN commits[c] :
                 /\ Cardinality(RerequestedIn(c, s)) <= 1
                 /\ c > 1 => RerequestedIn(c, s) = {}
                 /\ \A r \in RerequestedIn(c, s) :
                       /\ commits[c][s][r].completed_at # None
                       /\ CompletedBeforeBoundary(commits[c][s][r])
                       /\ \A q \in 1..(r - 1) :
                             ~CompletedBeforeBoundary(commits[c][s][q])

\* A suite of two stale runs, a suite of a running and a stale run, and a
\* stale run on a second commit: two reruns requested, one per suite.
C8_Witness ==
    /\ CalledRerun
    /\ Len(call.snapshot.commits) > 1
    /\ Len(call.rerequested) = 2
    /\ \E s \in DOMAIN call.snapshot.commits[1] :
          /\ Len(call.snapshot.commits[1][s]) = 2
          /\ \A r \in 1..2 : CompletedBeforeBoundary(call.snapshot.commits[1][s][r])
          /\ RerequestedIn(1, s) = {1}
    /\ \E s \in DOMAIN call.snapshot.commits[1] :
          /\ Len(call.snapshot.commits[1][s]) = 2
          /\ call.snapshot.commits[1][s][1].completed_at = None
          /\ RerequestedIn(1, s) = {2}
    /\ \E s \in DOMAIN call.snapshot.commits[2] :
          \E r \in DOMAIN call.snapshot.commits[2][s] :
              CompletedBeforeBoundary(call.snapshot.commits[2][s][r])

\* The call reached _maybe_rerun_stale_checks.
RerunnerInvoked ==
    /\ CalledRerun
    /\ config.CHECK_RERUN_ON_APPROVAL_ENABLED
    /\ ~call.snapshot.closed /\ ~call.snapshot.merged
    /\ call.snapshot.is_approved

\* C17 as stated: the rerunner returns true iff it requested the rerun of at
\* least one check run, whatever rerequest_check_run answered.
C17_Stated == RerunnerInvoked => call.ret = (call.rerequested # <<>>)

\* C17 amended: the rerunner returns true iff rerequest_check_run answered
\* True for at least one of the stale check runs it rerequested; it returns
\* false when it rerequested none or every answer was False.
C17_TrueIffSomeRerunReported ==
    RerunnerInvoked =>
        /\ call.ret = (\E i \in 1..Len(call.rerequested) :
                          call.rerequested[i] \in call.accepted)
        /\ call.ret => call.rerequested # <<>>
        /\ (call.rerequested # <<>> /\ call.accepted = {}) => call.ret = FALSE

\* Two suites with a stale run each: both rerequested, the first answered
\* False and the second True, true returned.
C17_Witness ==
    /\ RerunnerInvoked
    /\ Len(call.rerequested) = 2
    /\ call.accepted = {call.rerequested[2]}
    /\ call.rerequested[1] # call.rerequested[2]
    /\ call.ret = TRUE

\* C20: when the base ref is not in the allow-list, or the threshold is 0
\* hours or less, the rerunner returns false and requests no rerun, however
\* stale the check runs are.
C20_NotConfiguredNoRerun ==
    (/\ RerunnerInvoked
     /\ \/ call.snapshot.base_ref_name \notin config.CHECK_RERUN_BASE_REF_NAMES
        \/ config.CHECK_RERUN_THRESHOLD_HOURS <= 0)
        => /\ call.ret = FALSE
           /\ call.rerequested = <<>>
           /\ github.rerequest_check_run = {}

\* An allow-listed base ref, a negative threshold and a check run completed
\* hours ago: nothing requested.
C20_Witness ==
    /\ RerunnerInvoked
    /\ call.snapshot.base_ref_name \in config.CHECK_RERUN_BASE_REF_NAMES
    /\ config.CHECK_RERUN_THRESHOLD_HOURS < 0
    /\ \E s \in DOMAIN call.snapshot.commits[1] :
          \E r \in DOMAIN call.snapshot.commits[1][s] :
              /\ call.snapshot.commits[1][s][r].completed_at # None
              /\ call.snapshot.commits[1][s][r].completed_at[1] < call.at - 1
    /\ call.ret = FALSE
    /\ github.rerequest_check_run = {}

\* C21: the call invokes the stale check rerunner only if the
\* rerun-on-approval flag is set and the pull request is open (neither closed
\* nor merged) and approved; in every other case it requests no rerun and
\* returns false; it never issues a merge call or a comment call.
C21_RerunOnApprovalGuard ==
    CalledRerun =>
        /\ call.rerequested # <<>> => RerunnerInvoked
        /\ ~RerunnerInvoked
              => /\ call.ret = FALSE
                 /\ call.rerequested = <<>>
                 /\ call.accepted = {}
                 /\ pull_request = call.snapshot
        /\ ~call.merged
        /\ call.commented = <<>>
        /\ github.merge_pull_request = 0
        /\ github.add_pr_comment = 0
        /\ pull_request.merged = call.snapshot.merged
        /\ pull_request.comments = call.snapshot.comments

\* The flag set, an approved pull request closed without merge, the
\* rerunner configured and a stale check run: a no-op.
C21_Witness ==
    /\ CalledRerun
    /\ config.CHECK_RERUN_ON_APPROVAL_ENABLED
    /\ call.snapshot.is_approved
    /\ call.snapshot.closed /\ ~call.snapshot.merged
    /\ call.snapshot.base_ref_name \in config.CHECK_RERUN_BASE_REF_NAMES
    /\ config.CHECK_RERUN_THRESHOLD_HOURS > 0
    /\ \E s \in DOMAIN call.snapshot.commits[1] :
          \E r \in DOMAIN call.snapshot.commits[1][s] :
              CompletedBeforeBoundary(call.snapshot.commits[1][s][r])
    /\ call.ret = FALSE
    /\ call.rerequested = <<>>
    /\ github = NoGithubCalls
    /\ pull_request = call.snapshot

----------------------------------------------------------------------------
(* The automerge warning comment *)

WarnedBodies ==
    {AUTOMERGE_COMMENT_WARNING_AFTER_TESTS_AND_APPROVAL,
     AUTOMERGE_COMMENT_WARNING_AFTER_APPROVAL, <<"L", "G", "T", "M">>}

\* add_pr_comment: GitHub appends the comment, written by the bot.
Commented(pr, bodies, time) ==
    [pr EXCEPT !.comments =
        @ \o [i \in 1..Len(bodies) |->
                [author |-> "sgtm", published_at |-> time, body |-> bodies[i]]]]

InitWarn ==
    /\ now = 1
    /\ \E ls \in SUBSET AutomergeLabels, a \in BOOLEAN,
          cs \in SeqUpTo([author : {"alice"}, published_at : {1}, body : WarnedBodies],
                         MaxTexts) :
          pull_request =
              [EmptyPullRequest EXCEPT !.labels = ls, !.is_approved = a, !.comments = cs]
    /\ config \in {[DefaultConfig EXCEPT !.AUTOMERGE_ENABLED = e] : e \in BOOLEAN}
    /\ github = NoGithubCalls
    /\ call = NoCall
    /\ webhooks = NoWebhooks

\* One call of maybe_add_automerge_warning_comment.
MaybeWarn ==
    LET bodies == maybe_add_automerge_warning_comment(pull_request, config)
    IN /\ pull_request' = Commented(pull_request, bodies, now)
       /\ github' = [github EXCEPT !.add_pr_comment = @ + Len(bodies)]
       /\ call' = [NoCall EXCEPT !.op = "maybe_add_automerge_warning_comment",
                                 !.snapshot = pull_request, !.at = now,
                                 !.commented = bodies]
       /\ UNCHANGED <<config, now, webhooks>>

\* Someone adds or removes an automerge label.
LabelChanges ==
    \E label \in AutomergeLabels :
        /\ pull_request' =
              [pull_request EXCEPT !.labels =
                  IF label \in @ THEN @ \ {label} ELSE @ \cup {label}]
        /\ UNCHANGED <<config, now, github, call, webhooks>>

\* A reviewer approves, or the approval is withdrawn.
ApprovalChanges ==
    /\ pull_request' = [pull_request EXCEPT !.is_approved = ~@]
    /\ UNCHANGED <<config, now, github, call, webhooks>>

NextWarn == MaybeWarn \/ LabelChanges \/ ApprovalChanges

SpecWarn == InitWarn /\ [][NextWarn]_vars

CalledWarn == call.op = "maybe_add_automerge_warning_comment"

\* The canonical warning of the label tier the pull request carries.
CanonicalWarning(pr) ==
    IF AFTER_TESTS_AND_APPROVAL \in pr.labels
    THEN AUTOMERGE_COMMENT_WARNING_AFTER_TESTS_AND_APPROVAL
    ELSE AUTOMERGE_COMMENT_WARNING_AFTER_APPROVAL

HasCanonicalWarning(pr) ==
    \E i \in 1..Len(pr.comments) : pr.comments[i].body = CanonicalWarning(pr)

\* C9: two calls in succession, the pull request being between them as the
\* first call left it, post at most one warning comment; and a call on a pull
\* request that already has a comment equal to the canonical warning posts
\* nothing and changes nothing.
C9_WarningPostedOnce ==
    [][MaybeWarn
          => /\ (/\ CalledWarn
                  /\ pull_request = Commented(call.snapshot, call.commented, call.at))
                 => Len(call.commented) + Len(call'.commented) <= 1
             /\ HasCanonicalWarning(pull_request)
                 => /\ call'.commented = <<>>
                    /\ pull_request' = pull_request]_vars

\* The second of two successive calls: the first posted the warning, which
\* the second found and left alone.
C9_Witness ==
    /\ CalledWarn
    /\ config.AUTOMERGE_ENABLED
    /\ AFTER_APPROVAL \in call.snapshot.labels
    /\ ~call.snapshot.is_approved
    /\ github.add_pr_comment = 1
    /\ \E i \in 1..Len(call.snapshot.comments) :
          /\ call.snapshot.comments[i].author = "sgtm"
          /\ call.snapshot.comments[i].body = CanonicalWarning(call.snapshot)
    /\ call.commented = <<>>
    /\ pull_request = call.snapshot

\* C22: a call posts a warning comment only when the automerge feature is
\* enabled, the pull request carries AFTER_TESTS_AND_APPROVAL or
\* AFTER_APPROVAL, and it is not approved; the body posted is the canonical
\* warning of the tier the pull request carries (that of
\* AFTER_TESTS_AND_APPROVAL when that label is present, otherwise that of
\* AFTER_APPROVAL); a call posts at most one comment.
C22_WarningOnlyForUnapprovedApprovalLabels ==
    CalledWarn =>
        /\ Len(call.commented) <= 1
        /\ call.commented # <<>> =>
              /\ config.AUTOMERGE_ENABLED
              /\ call.snapshot.labels \cap {AFTER_TESTS_AND_APPROVAL, AFTER_APPROVAL} # {}
              /\ ~call.snapshot.is_approved
              /\ call.commented[1] =
                    IF AFTER_TESTS_AND_APPROVAL \in call.snapshot.labels
                    THEN AUTOMERGE_COMMENT_WARNING_AFTER_TESTS_AND_APPROVAL
                    ELSE AUTOMERGE_COMMENT_WARNING_AFTER_APPROVAL

\* Both approval labels, unapproved, the AFTER_APPROVAL warning already
\* there: the AFTER_TESTS_AND_APPROVAL warning is posted, once.
C22_Witness ==
    /\ CalledWarn
    /\ config.AUTOMERGE_ENABLED
    /\ {AFTER_TESTS_AND_APPROVAL, AFTER_APPROVAL} \subseteq call.snapshot.labels
    /\ ~call.snapshot.is_approved
    /\ \E i \in 1..Len(call.snapshot.comments) :
          call.snapshot.comments[i].body = AUTOMERGE_COMMENT_WARNING_AFTER_APPROVAL
    /\ call.commented = <<AUTOMERGE_COMMENT_WARNING_AFTER_TESTS_AND_APPROVAL>>
    /\ Len(pull_request.comments) = Len(call.snapshot.comments) + 1

----------------------------------------------------------------------------
(* Pre-merge approval: inputs and the call *)

NoBody == <<>>

ReviewsWithoutBody ==
    [author : Users, state : ReviewStates, submitted_at : Times, body : {NoBody}]

MergeStates ==
    {[merged |-> FALSE, merged_at |-> None], [merged |-> TRUE, merged_at |-> None]}
        \cup {[merged |-> TRUE, merged_at |-> Some(t)] : t \in Times}

InitBefore ==
    /\ \E rs \in SeqUpTo(ReviewsWithoutBody, MaxReviews), m \in MergeStates :
          pull_request =
              [EmptyPullRequest EXCEPT !.reviews = rs, !.merged = m.merged,
                                      !.closed = m.merged, !.merged_at = m.merged_at]
    /\ config \in {[DefaultConfig EXCEPT !.FOLLOWUP_REVIEW_GITHUB_USERS = f] :
                      f \in FollowupConfigs}
    /\ now = MaxTime
    /\ github = NoGithubCalls
    /\ call = NoCall
    /\ webhooks = NoWebhooks

ApprovedBeforeMerging ==
    /\ call' = Returned("pull_request_approved_before_merging", pull_request,
                        pull_request_approved_before_merging(pull_request, config))
    /\ UNCHANGED <<pull_request, config, now, github, webhooks>>

NextBefore == ApprovedBeforeMerging

SpecBefore == InitBefore /\ [][NextBefore]_vars

----------------------------------------------------------------------------
(* Claims on pre-merge approval *)

CalledBefore == call.op = "pull_request_approved_before_merging"

\* Positions of the qualifying pre-merge reviews of pr, stated directly.
Qualifying(pr) ==
    IF pr.merged_at = None THEN {}
    ELSE {i \in 1..Len(pr.reviews) :
            /\ pr.reviews[i].state \in {APPROVED, CHANGES_REQUESTED}
            /\ pr.reviews[i].submitted_at < pr.merged_at[1]}

\* i comes chronologically after j (ties: the later position upstream).
After(pr, i, j) ==
    \/ pr.reviews[i].submitted_at > pr.reviews[j].submitted_at
    \/ pr.reviews[i].submitted_at = pr.reviews[j].submitted_at /\ i > j

LastOf(pr, S) == CHOOSE i \in S : \A j \in S \ {i} : After(pr, i, j)

LastQualifying(pr) == pr.reviews[LastOf(pr, Qualifying(pr))]

QualifyingRegular(pr) ==
    {i \in Qualifying(pr) :
        pr.reviews[i].author \notin config.FOLLOWUP_REVIEW_GITHUB_USERS}

LastIsFollowupApproval(pr) ==
    /\ pr.merged
    /\ Qualifying(pr) # {}
    /\ LastQualifying(pr).state = APPROVED
    /\ LastQualifying(pr).author \in config.FOLLOWUP_REVIEW_GITHUB_USERS

C3_NoQualifyingReviewIsNo ==
    (CalledBefore /\ call.snapshot.merged /\ Qualifying(call.snapshot) = {})
        => call.ret = NO

\* Only a COMMENTED review before the merge and an approval at the merge time.
C3_Witness ==
    /\ CalledBefore
    /\ call.snapshot.merged
    /\ call.snapshot.merged_at # None
    /\ Qualifying(call.snapshot) = {}
    /\ \E i, j \in 1..Len(call.snapshot.reviews) :
          /\ call.snapshot.reviews[i].state = COMMENTED
          /\ call.snapshot.reviews[i].submitted_at < call.snapshot.merged_at[1]
          /\ call.snapshot.reviews[j].state = APPROVED
          /\ call.snapshot.reviews[j].submitted_at >= call.snapshot.merged_at[1]
    /\ call.ret = NO

\* C13: on a pull request that is not merged the evaluation fails its
\* assertion: it raises AssertionError and returns none of NO,
\* NEEDS_FOLLOWUP and APPROVED.
C13_NotMergedFailsAssertion ==
    (CalledBefore /\ ~call.snapshot.merged) =>
        /\ call.ret = AssertionError
        /\ call.ret \notin {NO, NEEDS_FOLLOWUP, StatusAPPROVED}

\* An unmerged pull request whose only review is an approval by a regular
\* user: the assertion fails.
C13_Witness ==
    /\ CalledBefore
    /\ ~call.snapshot.merged
    /\ Len(call.snapshot.reviews) = 1
    /\ call.snapshot.reviews[1].state = APPROVED
    /\ call.snapshot.reviews[1].author \notin config.FOLLOWUP_REVIEW_GITHUB_USERS
    /\ call.ret = AssertionError

\* The qualifying reviews with the greatest submitted_at.
Latest(pr) ==
    {i \in Qualifying(pr) :
        \A j \in Qualifying(pr) :
            pr.reviews[j].submitted_at <= pr.reviews[i].submitted_at}

\* The one of them that comes last in the upstream review list.
LastUpstream(pr) == CHOOSE i \in Latest(pr) : \A j \in Latest(pr) : j <= i

\* C19: when several qualifying pre-merge reviews share the greatest
\* submitted_at, the one that comes last in the pull request's review list
\* is the latest review: changes requested there give NO, an approval there
\* gives APPROVED or NEEDS_FOLLOWUP, and APPROVED when its author is not a
\* follow-up handle.
C19_TiesKeepUpstreamOrder ==
    (/\ CalledBefore
     /\ call.snapshot.merged
     /\ Cardinality(Latest(call.snapshot)) > 1) =>
        LET latest_review == call.snapshot.reviews[LastUpstream(call.snapshot)]
        IN /\ latest_review.state = CHANGES_REQUESTED => call.ret = NO
           /\ latest_review.state = APPROVED
                 => call.ret \in {StatusAPPROVED, NEEDS_FOLLOWUP}
           /\ (/\ latest_review.state = APPROVED
               /\ latest_review.author \notin config.FOLLOWUP_REVIEW_GITHUB_USERS)
                 => call.ret = StatusAPPROVED

\* Changes requested and then an approval by a regular user, both with the
\* same submitted_at before the merge: APPROVED.
C19_Witness ==
    /\ CalledBefore
    /\ call.snapshot.merged
    /\ Latest(call.snapshot) = {1, 2}
    /\ call.snapshot.reviews[1].state = CHANGES_REQUESTED
    /\ call.snapshot.reviews[2].state = APPROVED
    /\ call.snapshot.reviews[2].author \notin config.FOLLOWUP_REVIEW_GITHUB_USERS
    /\ call.ret = StatusAPPROVED

----------------------------------------------------------------------------
(* Post-merge approval: inputs and the call *)

\* "LGTM" carries a marker once lowered; "ship" carries none.
Bodies == {<<"L", "G", "T", "M">>, <<"s", "h", "i", "p">>}

\* Before the merge, at the merge, after it.
AroundMerge == {MaxTime - 2, MaxTime - 1, MaxTime}

CommentsWithBody == [author : Users, published_at : AroundMerge, body : Bodies]

ReviewsWithBody ==
    [author : Users, state : {APPROVED, COMMENTED}, submitted_at : AroundMerge,
     body : Bodies]

\* At most MaxTexts comments and reviews in all, on a pull request whose
\* merge time is known or not.  GitHub lets the author of a pull request
\* review it only with comments.
InitAfter ==
    /\ \E a \in Users, k \in 0..MaxTexts, merged_at \in {None, Some(MaxTime - 1)} :
          \E rs \in SeqUpTo(ReviewsWithBody, k),
             cs \in SeqUpTo(CommentsWithBody, MaxTexts - k) :
              /\ Len(rs) = k
              /\ pull_request =
                    [EmptyPullRequest EXCEPT !.author_handle = a, !.reviews = rs,
                                            !.comments = cs, !.merged = TRUE,
                                            !.closed = TRUE, !.merged_at = merged_at]
    /\ \A i \in 1..Len(pull_request.reviews) :
          pull_request.reviews[i].author = pull_request.author_handle
              => pull_request.reviews[i].state = COMMENTED
    /\ config \in {[DefaultConfig EXCEPT !.FOLLOWUP_REVIEW_GITHUB_USERS = f] :
                      f \in FollowupConfigs}
    /\ now = MaxTime
    /\ github = NoGithubCalls
    /\ call = NoCall
    /\ webhooks = NoWebhooks

ApprovedAfterMerging ==
    /\ call' = Returned("pull_request_approved_after_merging", pull_request,
                        pull_request_approved_after_merging(pull_request, config))
    /\ UNCHANGED <<pull_request, config, now, github, webhooks>>

NextAfter == ApprovedAfterMerging

SpecAfter == InitAfter /\ [][NextAfter]_vars

----------------------------------------------------------------------------
(* Claims on post-merge approval *)

CalledAfter == call.op = "pull_request_approved_after_merging"

IsFollowup(user) == user \in config.FOLLOWUP_REVIEW_GITHUB_USERS

\* Texts published at or after the merge that carry an approval marker.
PostMergeMarkerComments(pr) ==
    {i \in 1..Len(pr.comments) :
        /\ pr.comments[i].published_at >= pr.merged_at[1]
        /\ is_approval_comment_body(pr.comments[i].body)}

PostMergeMarkerReviews(pr) ==
    {i \in 1..Len(pr.reviews) :
        /\ pr.reviews[i].submitted_at >= pr.merged_at[1]
        /\ is_approval_comment_body(pr.reviews[i].body)}

\* C4: comments and reviews of the pull request's author or of a follow-up
\* handle are ignored: when every post-merge text with an approval marker
\* comes from such an author, the result is false.
C4_AuthorAndFollowupTextsIgnored ==
    (/\ CalledAfter
     /\ call.snapshot.merged_at # None
     /\ \A i \in PostMergeMarkerComments(call.snapshot) :
           \/ call.snapshot.comments[i].author = call.snapshot.author_handle
           \/ IsFollowup(call.snapshot.comments[i].author)
     /\ \A i \in PostMergeMarkerReviews(call.snapshot) :
           \/ call.snapshot.reviews[i].author = call.snapshot.author_handle
           \/ IsFollowup(call.snapshot.reviews[i].author))
        => call.ret = FALSE

\* C5: with a known merged_at the result is true iff some eligible post-merge
\* text carries an approval marker: a comment published at or after merged_at
\* by a user who is neither the author nor a follow-up handle, or a review
\* submitted at or after merged_at by a user who is not a follow-up handle.
C5_TrueIffEligibleMarker ==
    (CalledAfter /\ call.snapshot.merged_at # None) =>
        LET pr == call.snapshot
        IN call.ret =
             \/ \E i \in PostMergeMarkerComments(pr) :
                   /\ pr.comments[i].author # pr.author_handle
                   /\ ~IsFollowup(pr.comments[i].author)
             \/ \E i \in PostMergeMarkerReviews(pr) :
                   ~IsFollowup(pr.reviews[i].author)

\* A post-merge comment without a marker and a marker published strictly
\* before the merge by an eligible user: false.
C5_Witness ==
    /\ CalledAfter
    /\ call.snapshot.merged_at # None
    /\ \E i \in 1..Len(call.snapshot.comments) :
          call.snapshot.comments[i].published_at >= call.snapshot.merged_at[1]
    /\ PostMergeMarkerComments(call.snapshot) = {}
    /\ \E i \in 1..Len(call.snapshot.reviews) :
          /\ call.snapshot.reviews[i].submitted_at < call.snapshot.merged_at[1]
          /\ is_approval_comment_body(call.snapshot.reviews[i].body)
          /\ call.snapshot.reviews[i].author # call.snapshot.author_handle
          /\ ~IsFollowup(call.snapshot.reviews[i].author)
    /\ call.ret = FALSE

----------------------------------------------------------------------------
(* Both approval evaluations on a pull request whose merge time may be
   unknown *)

NextApproval == ApprovedBeforeMerging \/ ApprovedAfterMerging

SpecApproval == InitAfter /\ [][NextApproval]_vars

\* C14: when merged_at is null the conservative default is returned, not an
\* error, whatever reviews and comments are present: NO by the pre-merge
\* evaluation of a merged pull request, false by the post-merge evaluation.
C14_UnknownMergeTimeIsConservative ==
    /\ (CalledBefore /\ call.snapshot.merged /\ call.snapshot.merged_at = None)
          => call.ret = NO
    /\ (CalledAfter /\ call.snapshot.merged_at = None) => call.ret = FALSE

\* A merged pull request of unknown merge time with an approving review and
\* a marker comment, both by a user who is neither its author nor a
\* follow-up handle: false after merging, and NO before merging.
C14_Witness ==
    /\ CalledAfter
    /\ call.snapshot.merged
    /\ call.snapshot.merged_at = None
    /\ \E i \in 1..Len(call.snapshot.reviews) :
          /\ call.snapshot.reviews[i].state = APPROVED
          /\ call.snapshot.reviews[i].author # call.snapshot.author_handle
          /\ ~IsFollowup(call.snapshot.reviews[i].author)
    /\ \E i \in 1..Len(call.snapshot.comments) :
          /\ is_approval_comment_body(call.snapshot.comments[i].body)
          /\ call.snapshot.comments[i].author # call.snapshot.author_handle
          /\ ~IsFollowup(call.snapshot.comments[i].author)
    /\ call.ret = FALSE
    /\ pull_request_approved_before_merging(call.snapshot, config) = NO

----------------------------------------------------------------------------
(* Two webhook deliveries for one pull request *)

\* GitHub delivers a review event and a check event for the pull request;
\* each is handled by fetching a snapshot and evaluating automerge on it.
Deliveries == {"pull_request_review", "check_run"}

Waiting == [pc |-> "waiting", snapshot |-> EmptyPullRequest]

\* The caller either serializes the handlers of a pull request with a lock
\* held from the fetch to the end of the evaluation, or does not.
InitRace ==
    /\ now = MaxTime - 1
    /\ \E ls \in SUBSET AutomergeLabels, m \in MergeableStates, b \in BOOLEAN,
          a \in BOOLEAN, cs \in SoleCommit(now) :
          pull_request =
              [EmptyPullRequest EXCEPT !.labels = ls, !.mergeable = m,
                                      !.is_build_successful = b,
                                      !.is_approved = a, !.commits = cs]
    /\ config \in {[DefaultConfig EXCEPT !.CHECK_RERUN_THRESHOLD_HOURS = h] :
                      h \in ThresholdHours}
    /\ github = NoGithubCalls
    /\ call = NoCall
    /\ \E serialized \in BOOLEAN :
          webhooks = [serialized |-> serialized, lock |-> None,
                      handler |-> [h \in Deliveries |-> Waiting]]

\* The handler of delivery h fetches the pull request (taking the lock when
\* handlers are serialized).
Fetch(h) ==
    /\ webhooks.handler[h].pc = "waiting"
    /\ webhooks.serialized => webhooks.lock = None
    /\ webhooks' =
          [webhooks EXCEPT !.handler[h] = [pc |-> "fetched", snapshot |-> pull_request],
                           !.lock = IF webhooks.serialized THEN Some(h) ELSE @]
    /\ UNCHANGED <<pull_request, config, now, github, call>>

\* The handler of delivery h calls
\* maybe_automerge_pull_request_and_rerun_stale_checks on its snapshot; the
\* calls it makes reach GitHub, which holds the pull request as it is now.
Evaluate(h) ==
    /\ webhooks.handler[h].pc = "fetched"
    /\ LET snapshot == webhooks.handler[h].snapshot
       IN \E accepted \in SUBSET Asked(maybe_automerge_pull_request_and_rerun_stale_checks(
                                        snapshot, config, now, {})) :
            LET res == maybe_automerge_pull_request_and_rerun_stale_checks(
                           snapshot, config, now, accepted)
                ids == SeqToSet(res.rerequested)
                rerun == [pull_request EXCEPT
                              !.commits = Rerequested(@, ids \cap accepted)]
            IN /\ pull_request' = IF res.merged /\ ~pull_request.merged
                                  THEN Merged(rerun, now) ELSE rerun
               /\ github' = [github EXCEPT
                                 !.merge_pull_request = IF res.merged THEN @ + 1 ELSE @,
                                 !.rerequest_check_run = @ \cup ids]
               /\ call' = [NoCall EXCEPT
                               !.op = "maybe_automerge_pull_request_and_rerun_stale_checks",
                               !.snapshot = snapshot, !.at = now, !.ret = res.ret,
                               !.merged = res.merged, !.rerequested = res.rerequested,
                               !.accepted = ids \cap accepted, !.branch = res.branch,
                               !.ready = res.ready]
    /\ webhooks' = [webhooks EXCEPT !.handler[h].pc = "done", !.lock = None]
    /\ UNCHANGED <<config, now>>

NextRace == \E h \in Deliveries : Fetch(h) \/ Evaluate(h)

SpecRace == InitRace /\ [][NextRace]_vars

\* The handlers that have fetched a snapshot.
Fetched == {h \in Deliveries : webhooks.handler[h].pc # "waiting"}

\* C15: when the handlers of a pull request are serialized, each evaluates a
\* snapshot that shows what the previous one did, and at most one merge call
\* is ever issued; two merge calls for one pull request come only from
\* handlers that are not serialized and that both fetched the pull request
\* ready and open, before either merged.
C15_SerializedMergesOnce ==
    /\ webhooks.serialized =>
          /\ github.merge_pull_request <= 1
          /\ \A h \in Deliveries :
                webhooks.handler[h].pc = "fetched"
                    => /\ webhooks.lock = Some(h)
                       /\ webhooks.handler[h].snapshot = pull_request
    /\ github.merge_pull_request > 1 =>
          /\ ~webhooks.serialized
          /\ \A h \in Deliveries :
                /\ webhooks.handler[h].pc = "done"
                /\ SelectedReady(webhooks.handler[h].snapshot)

\* The double merge: no lock, both handlers fetched the same ready pull
\* request before either evaluated it, and each issued a merge call.
C15_Witness ==
    /\ ~webhooks.serialized
    /\ \A h \in Deliveries : webhooks.handler[h].pc = "done"
    /\ \A g, h \in Deliveries : webhooks.handler[g].snapshot = webhooks.handler[h].snapshot
    /\ \A h \in Deliveries : SelectedReady(webhooks.handler[h].snapshot)
    /\ github.merge_pull_request = 2
    /\ call.merged /\ call.ret = TRUE

\* Serialized: both handlers are done, the first merged, the second found
\* the pull request merged and returned false.
C15_SerializedWitness ==
    /\ webhooks.serialized
    /\ \A h \in Deliveries : webhooks.handler[h].pc = "done"
    /\ github.merge_pull_request = 1
    /\ call.snapshot.merged
    /\ ~call.merged /\ call.ret = FALSE

====
